---- MODULE Spec2Model ----
(***************************************************************************)
(* A model of app.py, the Streamlit "AI habit tracker" page.               *)
(*                                                                         *)
(* The script runs top to bottom on every user interaction.  The state is  *)
(* the widgets' values, the session's history list, the secrets store and  *)
(* the process environment, the clock, and, while a run that was started   *)
(* by the report button is in progress, the script's position and locals.  *)
(* Three specifications share the actions: Spec (short sessions with every *)
(* widget and every answer of the services), SpecLong (long sessions on    *)
(* the default widgets) and SpecKeys (the key resolution under every       *)
(* sidebar input, secrets store and environment).                          *)
(*                                                                         *)
(* Python values are encoded so that TLC can compare them:                 *)
(*   - a str that the code trims, splits or tests for emptiness is a       *)
(*     sequence of one-character strings ("" is << >>);                    *)
(*   - Optional[x] is None == << >> or Some(x) == << x >>;                 *)
(*   - a dict with a fixed set of keys is a record, a JSON object whose    *)
(*     keys may be missing is a record of Optional fields;                 *)
(*   - a calendar day is its day number (strftime("%Y-%m-%d") is one to    *)
(*     one on days, so the formatted date is identified with the day).     *)
(***************************************************************************)
EXTENDS Integers, Sequences, FiniteSets, TLC

VARIABLES
    \* widgets (their values persist across reruns of the script)
    openai_key, weather_key, use_env, habits, mood, city, coach_style,
    \* the environment of the process
    secrets, environ, clock,
    \* st.session_state.history
    history,
    \* the position of the script and the locals of the current run
    pc, OPENAI_API_KEY, OPENWEATHER_API_KEY, consulted, today_s,
    weather, dog, report,
    \* the traffic with the external services during the current run: the
    \* services called so far, the answer to the request of the last step
    \* (NoResponse when it sent none), the messages sent to the text service
    calls, answer, request,
    \* what the page shows below the report button
    shown,
    \* the number of widget edits and button presses made so far
    steps

vars == << openai_key, weather_key, use_env, habits, mood, city, coach_style,
           secrets, environ, clock, history,
           pc, OPENAI_API_KEY, OPENWEATHER_API_KEY, consulted, today_s,
           weather, dog, report, calls, answer, request, shown, steps >>

widgets == << openai_key, weather_key, use_env, habits, mood, city, coach_style >>
process == << secrets, environ >>
locals  == << weather, dog, report >>
traffic == << calls, answer, request >>

----------------------------------------------------------------------------
(* Bounds of the model *)

\* widget edits and report-button presses in a session
MaxSteps == 3
\* report-button presses in a long session
MaxHistory == 32
\* days the session lasts
MaxDay == 2

----------------------------------------------------------------------------
(* Python values *)

None == << >>
Some(x) == << x >>
IsNone(o) == o = << >>
Val(o) == o[1]

\* str.strip(): leading and trailing blanks removed
RECURSIVE LStrip(_)
LStrip(s) == IF s # << >> /\ Head(s) = " " THEN LStrip(Tail(s)) ELSE s

RECURSIVE RStrip(_)
RStrip(s) ==
    IF s # << >> /\ s[Len(s)] = " " THEN RStrip(SubSeq(s, 1, Len(s) - 1)) ELSE s

Strip(s) == RStrip(LStrip(s))

\* s[i..] starts with p
StartsAt(s, p, i) ==
    /\ i + Len(p) - 1 <= Len(s)
    /\ \A k \in 1..Len(p) : s[i + k - 1] = p[k]

\* the least index at or after i where p occurs in s, 0 when there is none
RECURSIVE FindFrom(_, _, _)
FindFrom(s, p, i) ==
    IF i + Len(p) - 1 > Len(s) THEN 0
    ELSE IF StartsAt(s, p, i) THEN i
    ELSE FindFrom(s, p, i + 1)

\* str.split(sep): the pieces of s between the occurrences of sep, left to right
RECURSIVE Split(_, _)
Split(s, sep) ==
    LET i == FindFrom(s, sep, 1) IN
    IF i = 0 THEN << s >>
    ELSE << SubSeq(s, 1, i - 1) >> \o Split(SubSeq(s, i + Len(sep), Len(s)), sep)

\* str.replace(a, b) for one-character a and b
Replace(s, a, b) == [k \in 1..Len(s) |-> IF s[k] = a THEN b ELSE s[k]]

\* str(v): a secrets value is a TOML string [t |-> "str", v |-> chars] or a TOML
\* integer [t |-> "int", v |-> n] (one digit here)
Digits == << "0", "1", "2", "3", "4", "5", "6", "7", "8", "9" >>
Str(x) == IF x.t = "int" THEN << Digits[x.v + 1] >> ELSE x.v

----------------------------------------------------------------------------
(* Sidebar: API keys *)

KeyNames == {"OPENAI_API_KEY", "OPENWEATHER_API_KEY"}

\* get_key with the environment consulted before the secrets store
get_key_env_first(name, sidebar_value, allow_env) ==
    IF sidebar_value # << >>
    THEN [value |-> Some(Strip(sidebar_value)), read |-> << >>]
    ELSE IF allow_env
    THEN LET v == environ[name] IN
         IF ~IsNone(v) /\ Val(v) # << >>
         THEN [value |-> Some(Strip(Val(v))), read |-> << "env" >>]
         ELSE IF ~IsNone(secrets[name])
         THEN [value |-> Some(Strip(Str(Val(secrets[name])))),
               read |-> << "env", "secrets" >>]
         ELSE [value |-> None, read |-> << "env", "secrets" >>]
    ELSE [value |-> None, read |-> << >>]

\* get_key: .value is what it returns, .read the sources it read, in order
get_key(name, sidebar_value, allow_env) ==
    IF sidebar_value # << >>
    THEN [value |-> Some(Strip(sidebar_value)), read |-> << >>]
    ELSE IF allow_env
    THEN IF ~IsNone(secrets[name])
         THEN [value |-> Some(Strip(Str(Val(secrets[name])))),
               read |-> << "secrets" >>]
         ELSE LET v == environ[name] IN
              IF ~IsNone(v) /\ Val(v) # << >>
              THEN [value |-> Some(Strip(Val(v))), read |-> << "secrets", "env" >>]
              ELSE [value |-> None, read |-> << "secrets", "env" >>]
    ELSE [value |-> None, read |-> << >>]

\* Python's truth value of an Optional[str]: None and "" are false
HasKey(k) == ~IsNone(k) /\ Val(k) # << >>

----------------------------------------------------------------------------
(* Weather client *)

Raise == [t |-> "raise"]
Http(status, body) == [t |-> "http", status |-> status, body |-> body]
InvalidJson == [t |-> "invalid"]
\* no request was made
NoResponse == [t |-> "no request"]

Missing == [t |-> "missing"]
JsonNull == [t |-> "null"]
MainObject == [t |-> "object", temp |-> Some(21), feels_like |-> Some(19),
               humidity |-> Some(40)]
MainNoHumidity == [t |-> "object", temp |-> Some(21), feels_like |-> Some(19),
                   humidity |-> None]
WeatherArray(items) == [t |-> "array", items |-> items]
ClearSky == [description |-> Some("clear sky")]
WeatherBody(main, w) == [t |-> "object", main |-> main, weather |-> w]

\* what the weather service may answer
WeatherResponses ==
    { Raise, Http(401, WeatherBody(Missing, Missing)), Http(200, InvalidJson) }
    \cup { Http(200, WeatherBody(m, w)) :
              m \in {Missing, MainObject},
              w \in {Missing, WeatherArray(<< ClearSky >>)} }
    \cup { Http(200, WeatherBody(JsonNull, WeatherArray(<< ClearSky >>))),
           Http(200, WeatherBody(MainNoHumidity, WeatherArray(<< >>))) }

\* data.get("main", {}).get(f): None.get raises when "main" is null
MainRaises(data) == data.main.t = "null"
MainGet(data, f) == IF data.main.t = "missing" THEN None ELSE data.main[f]
\* (data.get("weather") or [{}])[0].get("description")
WeatherDesc(data) ==
    IF data.weather.t = "missing" \/ data.weather.items = << >>
    THEN None
    ELSE data.weather.items[1].description

WeatherInfo(c, data) ==
    [city |-> c, temp |-> MainGet(data, "temp"),
     feels_like |-> MainGet(data, "feels_like"),
     humidity |-> MainGet(data, "humidity"), desc |-> WeatherDesc(data)]

\* get_weather without the status check
get_weather_any_status(c, api_key, resp) ==
    IF ~HasKey(api_key) THEN [value |-> None, resp |-> NoResponse]
    ELSE IF resp.t = "raise" THEN [value |-> None, resp |-> resp]
    ELSE IF resp.body.t = "invalid" THEN [value |-> None, resp |-> resp]
    ELSE IF MainRaises(resp.body) THEN [value |-> None, resp |-> resp]
    ELSE [value |-> Some(WeatherInfo(c, resp.body)), resp |-> resp]

\* get_weather: .value is what it returns, .resp the answer to its request
get_weather(c, api_key, resp) ==
    IF ~HasKey(api_key) THEN [value |-> None, resp |-> NoResponse]
    ELSE IF resp.t = "raise" THEN [value |-> None, resp |-> resp]
    ELSE IF resp.status # 200 THEN [value |-> None, resp |-> resp]
    ELSE IF resp.body.t = "invalid" THEN [value |-> None, resp |-> resp]
    ELSE IF MainRaises(resp.body) THEN [value |-> None, resp |-> resp]
    ELSE [value |-> Some(WeatherInfo(c, resp.body)), resp |-> resp]

----------------------------------------------------------------------------
(* Dog image client *)

BreedsSep == << "/", "b", "r", "e", "e", "d", "s", "/" >>
\* "d/breeds/a-b/x"
UrlHound == << "d" >> \o BreedsSep \o << "a", "-", "b", "/", "x" >>
\* "d/breeds/c"
UrlPug == << "d" >> \o BreedsSep \o << "c" >>
\* "d/x-y"
UrlNoBreed == << "d", "/", "x", "-", "y" >>

DogBody(status, message) == [t |-> "object", status |-> status, message |-> message]

\* what the dog service may answer
DogResponses ==
    { Raise, Http(500, DogBody("success", Some(UrlHound))), Http(200, InvalidJson),
      Http(200, DogBody("error", Some(UrlHound))),
      Http(200, DogBody("success", Some(UrlHound))),
      Http(200, DogBody("success", Some(UrlPug))),
      Http(200, DogBody("success", Some(UrlNoBreed))),
      Http(200, DogBody("success", None)) }

\* the inner try of get_dog_image
BreedOf(url) ==
    IF IsNone(url) THEN None
    ELSE LET parts == Split(Val(url), BreedsSep) IN
         IF Len(parts) < 2 THEN None
         ELSE Some(Replace(Split(parts[2], << "/" >>)[1], "-", " "))

\* get_dog_image without the test of the status field
get_dog_image_any_field(resp) ==
    IF resp.t = "raise" THEN None
    ELSE IF resp.status # 200 THEN None
    ELSE IF resp.body.t = "invalid" THEN None
    ELSE Some([url |-> resp.body.message, breed |-> BreedOf(resp.body.message)])

get_dog_image(resp) ==
    IF resp.t = "raise" THEN None
    ELSE IF resp.status # 200 THEN None
    ELSE IF resp.body.t = "invalid" THEN None
    ELSE IF resp.body.status # "success" THEN None
    ELSE Some([url |-> resp.body.message, breed |-> BreedOf(resp.body.message)])

----------------------------------------------------------------------------
(* Report generator *)

\* habit_defs, in display order (the page's labels are Korean)
habit_defs == << "wake-up mission", "drink water", "study/reading", "exercise", "sleep" >>
HabitNames == { habit_defs[i] : i \in 1..Len(habit_defs) }

coach_styles == << "spartan coach", "warm mentor", "game master" >>
CoachStyles == { coach_styles[i] : i \in 1..Len(coach_styles) }

\* style_prompts.get(coach_style, style_prompts["warm mentor"]); the prompts
\* are abbreviated
style_prompts(style) ==
    IF style = "spartan coach" THEN "strict and direct spartan coach"
    ELSE IF style = "game master" THEN "RPG game master"
    ELSE "warm and empathetic mentor"

\* [k for k, v in habits.items() if v] and its complement, in insertion order
Checked(h) == SelectSeq(habit_defs, LAMBDA k : h[k])
Unchecked(h) == SelectSeq(habit_defs, LAMBDA k : ~h[k])

\* the payload with a placeholder for the breed of a dog that was not fetched
Payload_placeholder(h, m, w, d, now) ==
    [date |-> now, mood |-> m, checked_habits |-> Checked(h),
     unchecked_habits |-> Unchecked(h), weather |-> w,
     dog_breed |-> IF IsNone(d) THEN Some(<< "?" >>) ELSE Val(d).breed]

\* the dict that generate_report embeds in the prompt as JSON
Payload(h, m, w, d, now) ==
    [date |-> now, mood |-> m, checked_habits |-> Checked(h),
     unchecked_habits |-> Unchecked(h), weather |-> w,
     dog_breed |-> IF IsNone(d) THEN None ELSE Val(d).breed]

Choice(content) == [content |-> content]
Completion(choices) == [t |-> "ok", choices |-> choices]

\* what the generative text service may answer
GenResponses ==
    { Raise, Completion(<< >>), Completion(<< Choice(Some("report")) >>),
      Completion(<< Choice(Some("")) >>), Completion(<< Choice(None) >>) }

\* the call of the service and what generate_report makes of its answer
Generated(resp) ==
    IF resp.t = "raise" THEN None
    ELSE IF resp.choices = << >> THEN None
    ELSE resp.choices[1].content

\* generate_report that calls the service whatever the key is
generate_report_always(h, m, w, d, style, api_key, resp, now) ==
    [value |-> Generated(resp), resp |-> resp,
     request |-> Some([system |-> style_prompts(style),
                       payload |-> Payload(h, m, w, d, now)])]

\* generate_report: .value is what it returns, .request the messages it sent
\* (None when it sent none), .resp the service's answer
generate_report(h, m, w, d, style, api_key, resp, now) ==
    IF ~HasKey(api_key)
    THEN [value |-> None, resp |-> NoResponse, request |-> None]
    ELSE [value |-> Generated(resp), resp |-> resp,
          request |-> Some([system |-> style_prompts(style),
                            payload |-> Payload(h, m, w, d, now)])]

----------------------------------------------------------------------------
(* Session state and the chart *)

\* checked_count, total_habits
checked_count(h) == Cardinality({ k \in HabitNames : h[k] })
total_habits == Len(habit_defs)

\* int(round(x)) for x = n / d: Python rounds halves to the even neighbour
Round(n, d) ==
    LET q == n \div d
        r == n % d
    IN IF 2 * r < d THEN q
       ELSE IF 2 * r > d THEN q + 1
       ELSE IF q % 2 = 0 THEN q ELSE q + 1

\* achievement = int(round((checked_count / total_habits) * 100))
achievement(h) == Round(checked_count(h) * 100, total_habits)

\* the record the button's handler appends to st.session_state.history
Snapshot(day, h, m, c, style) ==
    [date |-> day, habits |-> h, achievement |-> achievement(h), mood |-> m,
     city |-> c, coach_style |-> style]

\* the number of entries normalize_history looks at
HistoryKeep == 30

\* m = {}; for rec in history_list: m[rec["date"]] = rec
RECURSIVE DateMap(_, _)
DateMap(m, list) ==
    IF list = << >> THEN m
    ELSE LET rec == Head(list) IN
         DateMap([d \in DOMAIN m \cup {rec.date} |->
                     IF d = rec.date THEN rec ELSE m[d]], Tail(list))

EmptyMap == [d \in {} |-> 0]

\* normalize_history without the cut to the last 30
normalize_history_uncut(history_list) == DateMap(EmptyMap, history_list)

\* normalize_history in which the first record of a date wins
RECURSIVE FirstMap(_, _)
FirstMap(m, list) ==
    IF list = << >> THEN m
    ELSE LET rec == Head(list) IN
         FirstMap([d \in DOMAIN m \cup {rec.date} |->
                      IF d \in DOMAIN m THEN m[d] ELSE rec], Tail(list))

normalize_history_first_wins(history_list) ==
    FirstMap(EmptyMap,
             IF Len(history_list) > HistoryKeep
             THEN SubSeq(history_list, Len(history_list) - HistoryKeep + 1,
                         Len(history_list))
             ELSE history_list)

\* normalize_history(history_list): the date-keyed view of the history
normalize_history(history_list) ==
    DateMap(EmptyMap,
            IF Len(history_list) > HistoryKeep
            THEN SubSeq(history_list, Len(history_list) - HistoryKeep + 1,
                        Len(history_list))
            ELSE history_list)

----------------------------------------------------------------------------
(* Result cards *)

\* the label the page prints for a breed it does not know
UnknownLabel == << "u", "n", "k", "n", "o", "w", "n" >>

Truthy(text) == ~IsNone(text) /\ Val(text) # ""

\* if weather: st.info(...) else: st.warning(...)
WeatherCard(w) ==
    IF IsNone(w) THEN [t |-> "warning"] ELSE [t |-> "info", weather |-> Val(w)]

\* dog.get("breed") or the label
BreedLabel(d) ==
    IF IsNone(d.breed) \/ Val(d.breed) = << >> THEN UnknownLabel ELSE Val(d.breed)

\* if dog and dog.get("url"): breed and image, else: st.warning(...)
DogCard(d) ==
    IF IsNone(d) \/ IsNone(Val(d).url) \/ Val(Val(d).url) = << >>
    THEN [t |-> "warning"]
    ELSE [t |-> "image", breed |-> BreedLabel(Val(d)), url |-> Val(Val(d).url)]

\* the report card with "is not None" in place of the truth test
ReportCard_not_none(r, api_key) ==
    IF ~IsNone(r) THEN [t |-> "report", text |-> Val(r)]
    ELSE IF ~HasKey(api_key) THEN [t |-> "no key"]
    ELSE [t |-> "failed"]

\* if report: st.markdown(report), else one of the two st.error messages
ReportCard(r, api_key) ==
    IF Truthy(r) THEN [t |-> "report", text |-> Val(r)]
    ELSE IF ~HasKey(api_key) THEN [t |-> "no key"]
    ELSE [t |-> "failed"]

\* the lines of the share text that depend on the fetched data
Share(w, d, r) ==
    [weather |-> IF IsNone(w) THEN "failed" ELSE "ok",
     dog |-> IF IsNone(d) THEN << "f", "a", "i", "l", "e", "d" >> ELSE BreedLabel(Val(d)),
     report |-> IF Truthy(r) THEN Val(r) ELSE "(failed)"]

----------------------------------------------------------------------------
(* The session *)

\* the values the widgets are given in the model
SidebarValues == { << >>, << " ", "k", " " >>, << " " >> }
Moods == {6, 10}
Cities == {"Seoul", "Busan"}

\* the secrets stores and environments of the model
SecretValues ==
    { None, Some([t |-> "str", v |-> << "s" >>]), Some([t |-> "str", v |-> << " ", "s" >>]),
      Some([t |-> "str", v |-> << >>]), Some([t |-> "int", v |-> 7]) }
EnvValues == { None, Some(<< >>), Some(<< "e" >>), Some(<< "e", " " >>) }

NoSecrets == [n \in KeyNames |-> None]
NoEnviron == [n \in KeyNames |-> None]
Processes ==
    { << NoSecrets, NoEnviron >>,
      << [n \in KeyNames |-> Some([t |-> "str", v |-> << "s" >>])], NoEnviron >> }

\* lines 1-283 of a run: the keys are resolved and the day is read
RunTop(ok, wk, ue) ==
    /\ OPENAI_API_KEY' = get_key("OPENAI_API_KEY", ok, ue).value
    /\ OPENWEATHER_API_KEY' = get_key("OPENWEATHER_API_KEY", wk, ue).value
    /\ consulted' = [OPENAI_API_KEY |-> get_key("OPENAI_API_KEY", ok, ue).read,
                     OPENWEATHER_API_KEY |-> get_key("OPENWEATHER_API_KEY", wk, ue).read]
    /\ today_s' = clock

\* a run starts with nothing fetched, nothing sent and no result section
FreshRun ==
    /\ weather' = None /\ dog' = None /\ report' = None
    /\ calls' = << >> /\ answer' = NoResponse /\ request' = None
    /\ shown' = None

\* a run of the script in which the report button is not pressed (gen is False)
RunIdle(ok, wk, ue) ==
    /\ RunTop(ok, wk, ue)
    /\ FreshRun
    /\ pc' = "idle"
    /\ UNCHANGED << history, process, clock >>

\* a session before the first run of the script: the widgets hold the values
\* ok, wk and ue, and nothing is resolved, fetched or shown
InitSession(ok, wk, ue) ==
    /\ openai_key = ok /\ weather_key = wk /\ use_env = ue
    /\ habits = [k \in HabitNames |-> FALSE]
    /\ mood = 6 /\ city = "Seoul" /\ coach_style = "warm mentor"
    /\ clock = 1
    /\ history = << >>
    /\ pc = "start"
    /\ OPENAI_API_KEY = None /\ OPENWEATHER_API_KEY = None
    /\ consulted = [n \in KeyNames |-> << >>]
    /\ today_s = clock
    /\ weather = None /\ dog = None /\ report = None
    /\ calls = << >> /\ answer = NoResponse /\ request = None
    /\ shown = None
    /\ steps = 0

\* a new session with the default widgets, in one of the model's processes
Init ==
    /\ \E p \in Processes : secrets = p[1] /\ environ = p[2]
    /\ InitSession(<< >>, << >>, TRUE)

(* Widget edits: each changes one widget and reruns the script *)

EnterOpenAIKey(v) ==
    /\ pc = "idle" /\ steps < MaxSteps /\ v # openai_key
    /\ openai_key' = v /\ steps' = steps + 1
    /\ RunIdle(v, weather_key, use_env)
    /\ UNCHANGED << weather_key, use_env, habits, mood, city, coach_style >>

EnterWeatherKey(v) ==
    /\ pc = "idle" /\ steps < MaxSteps /\ v # weather_key
    /\ weather_key' = v /\ steps' = steps + 1
    /\ RunIdle(openai_key, v, use_env)
    /\ UNCHANGED << openai_key, use_env, habits, mood, city, coach_style >>

ToggleUseEnv ==
    /\ pc = "idle" /\ steps < MaxSteps
    /\ use_env' = ~use_env /\ steps' = steps + 1
    /\ RunIdle(openai_key, weather_key, ~use_env)
    /\ UNCHANGED << openai_key, weather_key, habits, mood, city, coach_style >>

ToggleHabit(k) ==
    /\ pc = "idle" /\ steps < MaxSteps
    /\ habits' = [habits EXCEPT ![k] = ~habits[k]] /\ steps' = steps + 1
    /\ RunIdle(openai_key, weather_key, use_env)
    /\ UNCHANGED << openai_key, weather_key, use_env, mood, city, coach_style >>

SetMood(m) ==
    /\ pc = "idle" /\ steps < MaxSteps /\ m # mood
    /\ mood' = m /\ steps' = steps + 1
    /\ RunIdle(openai_key, weather_key, use_env)
    /\ UNCHANGED << openai_key, weather_key, use_env, habits, city, coach_style >>

SelectCity(c) ==
    /\ pc = "idle" /\ steps < MaxSteps /\ c # city
    /\ city' = c /\ steps' = steps + 1
    /\ RunIdle(openai_key, weather_key, use_env)
    /\ UNCHANGED << openai_key, weather_key, use_env, habits, mood, coach_style >>

SelectCoachStyle(c) ==
    /\ pc = "idle" /\ steps < MaxSteps /\ c # coach_style
    /\ coach_style' = c /\ steps' = steps + 1
    /\ RunIdle(openai_key, weather_key, use_env)
    /\ UNCHANGED << openai_key, weather_key, use_env, habits, mood, city >>

\* the first run of a session, or a rerun without a widget touched
Rerun ==
    /\ pc \in {"start", "idle"}
    /\ RunIdle(openai_key, weather_key, use_env)
    /\ UNCHANGED << widgets, steps >>

(* The report button: lines 284-366, one step per call *)

\* the handler with the snapshot appended twice
Press_twice(maxSteps) ==
    /\ pc = "idle" /\ steps < maxSteps
    /\ steps' = steps + 1
    /\ RunTop(openai_key, weather_key, use_env)
    /\ FreshRun
    /\ history' = history \o << Snapshot(clock, habits, mood, city, coach_style),
                                 Snapshot(clock, habits, mood, city, coach_style) >>
    /\ pc' = "get_weather"
    /\ UNCHANGED << widgets, process, clock >>

\* a run in which the button is pressed, up to the append of the snapshot
Press(maxSteps) ==
    /\ pc = "idle" /\ steps < maxSteps
    /\ steps' = steps + 1
    /\ RunTop(openai_key, weather_key, use_env)
    /\ FreshRun
    /\ history' = Append(history, Snapshot(clock, habits, mood, city, coach_style))
    /\ pc' = "get_weather"
    /\ UNCHANGED << widgets, process, clock >>

PressButton == Press(MaxSteps)

PressButtonLong == Press(MaxHistory)

\* weather = get_weather(city, OPENWEATHER_API_KEY)
GetWeather ==
    /\ pc = "get_weather"
    /\ \E resp \in WeatherResponses :
          LET r == get_weather(city, OPENWEATHER_API_KEY, resp) IN
          /\ weather' = r.value
          /\ answer' = r.resp
          /\ calls' = IF r.resp = NoResponse THEN calls ELSE Append(calls, "weather")
    /\ pc' = "get_dog"
    /\ UNCHANGED << widgets, process, clock, history, OPENAI_API_KEY,
                    OPENWEATHER_API_KEY, consulted, today_s, dog, report,
                    request, shown, steps >>

\* the dog step that asks again after a failure
GetDogImage_retry ==
    /\ pc = "get_dog"
    /\ \E resp \in DogResponses :
          /\ dog' = get_dog_image(resp)
          /\ answer' = resp
          /\ calls' = IF IsNone(get_dog_image(resp))
                       THEN calls \o << "dog", "dog" >>
                       ELSE Append(calls, "dog")
    /\ pc' = "generate_report"
    /\ UNCHANGED << widgets, process, clock, history, OPENAI_API_KEY,
                    OPENWEATHER_API_KEY, consulted, today_s, weather, report,
                    request, shown, steps >>

\* dog = get_dog_image()
GetDogImage ==
    /\ pc = "get_dog"
    /\ \E resp \in DogResponses :
          /\ dog' = get_dog_image(resp)
          /\ answer' = resp
          /\ calls' = Append(calls, "dog")
    /\ pc' = "generate_report"
    /\ UNCHANGED << widgets, process, clock, history, OPENAI_API_KEY,
                    OPENWEATHER_API_KEY, consulted, today_s, weather, report,
                    request, shown, steps >>

\* report = generate_report(habits=..., api_key=OPENAI_API_KEY)
GenerateReport ==
    /\ pc = "generate_report"
    /\ \E resp \in GenResponses :
          LET r == generate_report(habits, mood, weather, dog, coach_style,
                                   OPENAI_API_KEY, resp, clock) IN
          /\ report' = r.value
          /\ answer' = r.resp
          /\ request' = r.request
          /\ calls' = IF r.resp = NoResponse THEN calls ELSE Append(calls, "report")
    /\ pc' = "render"
    /\ UNCHANGED << widgets, process, clock, history, OPENAI_API_KEY,
                    OPENWEATHER_API_KEY, consulted, today_s, weather, dog,
                    shown, steps >>

\* the cards, the report section and the share text
Render ==
    /\ pc = "render"
    /\ shown' = Some([weather_card |-> WeatherCard(weather),
                      dog_card |-> DogCard(dog),
                      report_card |-> ReportCard(report, OPENAI_API_KEY),
                      share |-> Share(weather, dog, report)])
    /\ pc' = "idle"
    /\ UNCHANGED << widgets, process, clock, history, OPENAI_API_KEY,
                    OPENWEATHER_API_KEY, consulted, today_s, locals, traffic, steps >>

\* midnight
DayPasses ==
    /\ clock < MaxDay
    /\ clock' = clock + 1
    /\ UNCHANGED << widgets, process, history, pc, OPENAI_API_KEY,
                    OPENWEATHER_API_KEY, consulted, today_s, locals, traffic,
                    shown, steps >>

Next ==
    \/ \E v \in SidebarValues : EnterOpenAIKey(v)
    \/ \E v \in SidebarValues : EnterWeatherKey(v)
    \/ ToggleUseEnv
    \/ \E k \in HabitNames : ToggleHabit(k)
    \/ \E m \in Moods : SetMood(m)
    \/ \E c \in Cities : SelectCity(c)
    \/ \E c \in CoachStyles : SelectCoachStyle(c)
    \/ Rerun
    \/ PressButton
    \/ GetWeather
    \/ GetDogImage
    \/ GenerateReport
    \/ Render
    \/ DayPasses

Spec == Init /\ [][Next]_vars

\* A long session on the default widgets, without keys: the button is pressed
\* again and again, over the days
InitLong ==
    /\ secrets = NoSecrets /\ environ = NoEnviron
    /\ InitSession(<< >>, << >>, TRUE)

NextLong ==
    \/ Rerun
    \/ PressButtonLong
    \/ GetWeather
    \/ GetDogImage
    \/ GenerateReport
    \/ Render
    \/ DayPasses

SpecLong == InitLong /\ [][NextLong]_vars

\* The first run of the page under every sidebar input, secrets store and
\* environment of the model, and its reruns
InitKeys ==
    /\ secrets \in [KeyNames -> SecretValues]
    /\ environ \in [KeyNames -> EnvValues]
    /\ \E ok \in SidebarValues, wk \in SidebarValues, ue \in BOOLEAN :
          InitSession(ok, wk, ue)

NextKeys == Rerun \/ DayPasses

SpecKeys == InitKeys /\ [][NextKeys]_vars

----------------------------------------------------------------------------
(* Vocabulary of the properties *)

Range(q) == { q[i] : i \in 1..Len(q) }
Max(a, b) == IF a > b THEN a ELSE b

\* the run in progress, or the last one, was started by the button and has
\* passed the named step
WeatherFetched == pc \in {"get_dog", "generate_report", "render"} \/ ~IsNone(shown)
DogFetched == pc \in {"generate_report", "render"} \/ ~IsNone(shown)
ReportDone == pc = "render" \/ ~IsNone(shown)
Rendered == ~IsNone(shown)
\* the step just taken: answer is the answer to its request
AfterWeather == pc = "get_dog"
AfterDog == pc = "generate_report"

\* the entries of the list that are among the HistoryKeep last appended
Recent(list) == Max(1, Len(list) - HistoryKeep + 1)..Len(list)

\* the index of the snapshot last appended for day d
LastFor(list, d) ==
    CHOOSE i \in 1..Len(list) :
        /\ list[i].date = d
        /\ \A j \in (i + 1)..Len(list) : list[j].date # d

\* t is s without its leading and trailing blanks
Blanks(q) == \A i \in 1..Len(q) : q[i] = " "
IsTrimOf(t, s) ==
    /\ t = << >> \/ (t[1] # " " /\ t[Len(t)] # " ")
    /\ \E i \in 0..Len(s) : \E j \in i..Len(s) :
          /\ Blanks(SubSeq(s, 1, i))
          /\ t = SubSeq(s, i + 1, j)
          /\ Blanks(SubSeq(s, j + 1, Len(s)))

\* the key resolved for name n, the sidebar value it was resolved from
Resolved(n) == IF n = "OPENAI_API_KEY" THEN OPENAI_API_KEY ELSE OPENWEATHER_API_KEY
Sidebar(n) == IF n = "OPENAI_API_KEY" THEN openai_key ELSE weather_key
\* the text of a secrets value
SecretText(x) == IF x.t = "int" THEN << "7" >> ELSE x.v

\* the answers of the services, by kind
Answered200(resp) == resp.t = "http" /\ resp.status = 200
JsonObject(resp) == Answered200(resp) /\ resp.body.t = "object"
LacksMainOrWeather(resp) ==
    JsonObject(resp) /\ (resp.body.main.t = "missing" \/ resp.body.weather.t = "missing")
DogSuccess(resp) == JsonObject(resp) /\ resp.body.status = "success"
DogFailed(resp) == resp # NoResponse /\ ~DogSuccess(resp)

\* the place of the first "/breeds/" in url, 0 when there is none
SegmentAt(url) ==
    IF \E i \in 1..Len(url) : StartsAt(url, BreedsSep, i)
    THEN CHOOSE i \in 1..Len(url) :
             /\ StartsAt(url, BreedsSep, i)
             /\ \A j \in 1..(i - 1) : ~StartsAt(url, BreedsSep, j)
    ELSE 0
\* the slug: what follows that "/breeds/", up to the next "/" or the end
Slug(url) ==
    LET rest == SubSeq(url, SegmentAt(url) + Len(BreedsSep), Len(url))
        stop == IF \E j \in 1..Len(rest) : rest[j] = "/"
                THEN CHOOSE j \in 1..Len(rest) :
                         rest[j] = "/" /\ \A k \in 1..(j - 1) : rest[k] # "/"
                ELSE Len(rest) + 1
    IN SubSeq(rest, 1, stop - 1)
\* b is slug with every "-" turned into a blank
IsBreedOf(b, slug) ==
    /\ Len(b) = Len(slug)
    /\ \A i \in 1..Len(slug) : b[i] = (IF slug[i] = "-" THEN " " ELSE slug[i])

\* the generation call returned the first choice's content / a non-empty text
CallSucceeded(resp) == resp.t = "ok" /\ resp.choices # << >>
CallGaveText(resp) ==
    /\ CallSucceeded(resp)
    /\ ~IsNone(resp.choices[1].content)
    /\ Val(resp.choices[1].content) # ""

\* the place of a service in the order of the handler
Rank(svc) == IF svc = "weather" THEN 1 ELSE IF svc = "dog" THEN 2 ELSE 3

----------------------------------------------------------------------------
(* Properties *)

\* C1: st.session_state.history never holds more than 30 snapshots: the 31st
\* append drops the oldest.
C1_HistoryAtMost30 == Len(history) <= HistoryKeep

\* What the code bounds instead: the stored list keeps every snapshot, and the
\* date-keyed view that normalize_history builds covers the 30 most recently
\* appended: its dates are exactly their dates and each of its entries is one
\* of them.
HistoryView_OfLast30 ==
    LET view == normalize_history(history) IN
    /\ Len(history) = steps
    /\ DOMAIN view = { history[i].date : i \in Recent(history) }
    /\ \A d \in DOMAIN view : \E i \in Recent(history) : view[d] = history[i]
    /\ Cardinality(DOMAIN view) <= HistoryKeep

\* a 31st snapshot is stored, and the day of the oldest has left the view
HistoryView_Witness ==
    /\ Len(history) > HistoryKeep
    /\ history[1].date \notin DOMAIN normalize_history(history)
    /\ history[Len(history)].date \in DOMAIN normalize_history(history)

\* C2: whenever the generation credential is None or empty, generate_report
\* returns None and no request goes to the generative text service.
C2_NoKeyNoCall ==
    ~HasKey(OPENAI_API_KEY) =>
        /\ IsNone(report)
        /\ IsNone(request)
        /\ "report" \notin Range(calls)
        /\ ReportDone => answer = NoResponse

\* the report step has run with an empty key, after both fetches succeeded
C2_Witness ==
    /\ ReportDone
    /\ OPENAI_API_KEY = Some(<< >>)
    /\ ~IsNone(weather) /\ ~IsNone(dog)
    /\ calls = << "weather", "dog" >>

\* C3: with no weather credential, a generation credential and a failed dog
\* call, weather and dog are None when the report step starts, the step still
\* calls the service, and the payload it sends has weather = null and
\* dog_breed = null.
C3_ReportDespiteFailures ==
    [][(/\ pc = "generate_report"
        /\ ~HasKey(OPENWEATHER_API_KEY)
        /\ HasKey(OPENAI_API_KEY)
        /\ DogFailed(answer)
        /\ pc' = "render")
       => /\ IsNone(weather) /\ IsNone(dog)
          /\ calls = << "dog" >>
          /\ calls' = << "dog", "report" >>
          /\ ~IsNone(request')
          /\ IsNone(Val(request').payload.weather)
          /\ IsNone(Val(request').payload.dog_breed)]_vars

\* no weather key, the dog service failed, and the report came back all the same
C3_Witness ==
    /\ Rendered
    /\ ~HasKey(OPENWEATHER_API_KEY) /\ HasKey(OPENAI_API_KEY)
    /\ IsNone(dog)
    /\ calls = << "dog", "report" >>
    /\ IsNone(Val(request).payload.dog_breed)
    /\ report = Some("report")

\* C4, as stated: get_weather returns None when the credential is missing, the
\* status is not 200, the request raises, or the JSON lacks main or weather.
C4_NoneWhenKeysLacking ==
    AfterWeather =>
        /\ ~HasKey(OPENWEATHER_API_KEY) => IsNone(weather) /\ answer = NoResponse
        /\ answer.t = "raise" => IsNone(weather)
        /\ (answer.t = "http" /\ answer.status # 200) => IsNone(weather)
        /\ LacksMainOrWeather(answer) => IsNone(weather)

\* C4, amended: get_weather returns None when the credential is missing (and
\* then sends no request), when the status is not 200, and when the request or
\* the reading of the body raises (time-out, invalid JSON, a main that is not
\* an object).  A 200 answer whose JSON lacks main or weather still gives a
\* WeatherInfo record, with the fields of the missing key None.
C4_WeatherOrNone ==
    AfterWeather =>
        /\ ~HasKey(OPENWEATHER_API_KEY) =>
              IsNone(weather) /\ answer = NoResponse /\ calls = << >>
        /\ HasKey(OPENWEATHER_API_KEY) =>
              answer # NoResponse /\ calls = << "weather" >>
        /\ answer.t = "raise" => IsNone(weather)
        /\ (answer.t = "http" /\ answer.status # 200) => IsNone(weather)
        /\ (Answered200(answer) /\ answer.body.t = "invalid") => IsNone(weather)
        /\ (JsonObject(answer) /\ answer.body.main.t = "null") => IsNone(weather)
        /\ (JsonObject(answer) /\ answer.body.main.t # "null") =>
              /\ ~IsNone(weather)
              /\ Val(weather).city = city
              /\ answer.body.main.t = "missing" =>
                    /\ IsNone(Val(weather).temp)
                    /\ IsNone(Val(weather).feels_like)
                    /\ IsNone(Val(weather).humidity)
              /\ answer.body.main.t = "object" =>
                    /\ Val(weather).temp = answer.body.main.temp
                    /\ Val(weather).feels_like = answer.body.main.feels_like
                    /\ Val(weather).humidity = answer.body.main.humidity
              /\ answer.body.weather.t = "missing" => IsNone(Val(weather).desc)
              /\ (answer.body.weather.t = "array" /\ answer.body.weather.items # << >>) =>
                    Val(weather).desc = answer.body.weather.items[1].description

\* a 200 answer without main and without weather gave a record of Nones
C4_Witness ==
    /\ AfterWeather
    /\ answer = Http(200, WeatherBody(Missing, Missing))
    /\ ~IsNone(weather)
    /\ IsNone(Val(weather).temp) /\ IsNone(Val(weather).desc)

\* C5, as stated: a "success" answer whose URL has no /breeds/ segment gives
\* a DogInfo whose breed is the "unknown" label.
C5_BreedIsUnknownLabel ==
    (/\ AfterDog
     /\ DogSuccess(answer)
     /\ ~IsNone(answer.body.message)
     /\ SegmentAt(Val(answer.body.message)) = 0)
    => /\ ~IsNone(dog)
       /\ Val(dog).url = answer.body.message
       /\ Val(dog).breed = Some(UnknownLabel)

\* C5, amended: get_dog_image returns None when the call raises, the status is
\* not 200 or the status field is not "success".  A "success" answer whose URL
\* has no /breeds/ segment gives a DogInfo with the URL and breed None, which
\* the dog card and the share text print as the "unknown" label; with the
\* segment, breed is the slug with "-" turned into a blank.
C5_DogOrNone ==
    /\ AfterDog =>
          /\ DogFailed(answer) => IsNone(dog)
          /\ (DogSuccess(answer) /\ ~IsNone(answer.body.message)) =>
                LET url == Val(answer.body.message) IN
                /\ ~IsNone(dog)
                /\ Val(dog).url = Some(url)
                /\ SegmentAt(url) = 0 => IsNone(Val(dog).breed)
                /\ SegmentAt(url) # 0 =>
                      /\ ~IsNone(Val(dog).breed)
                      /\ IsBreedOf(Val(Val(dog).breed), Slug(url))
    /\ (Rendered /\ ~IsNone(dog) /\ ~IsNone(Val(dog).url)) =>
          /\ Val(shown).dog_card.t = "image"
          /\ Val(shown).dog_card.url = Val(Val(dog).url)
          /\ IF IsNone(Val(dog).breed)
             THEN /\ Val(shown).dog_card.breed = UnknownLabel
                  /\ Val(shown).share.dog = UnknownLabel
             ELSE Val(shown).dog_card.breed = Val(Val(dog).breed)

\* a picture without a /breeds/ segment is on the page under the label
C5_Witness ==
    /\ Rendered
    /\ dog = Some([url |-> Some(UrlNoBreed), breed |-> None])
    /\ Val(shown).dog_card = [t |-> "image", breed |-> UnknownLabel, url |-> UrlNoBreed]

\* C6, as stated: "no credential" is shown iff the credential is absent,
\* "generation failed" iff it is present and the call failed, the report text
\* iff the call succeeded.
C6_OutcomeByCause ==
    Rendered =>
        LET card == Val(shown).report_card.t IN
        /\ card = "no key" <=> ~HasKey(OPENAI_API_KEY)
        /\ card = "failed" <=> (HasKey(OPENAI_API_KEY) /\ ~CallSucceeded(answer))
        /\ card = "report" <=> CallSucceeded(answer)

\* C6, amended: exactly one outcome is shown: "no credential" iff the
\* credential is absent; the report text iff the call returned a non-empty
\* text; "generation failed" iff the credential is present and the call failed
\* or returned no text.
C6_OutcomeByResult ==
    Rendered =>
        LET card == Val(shown).report_card IN
        /\ card.t \in {"no key", "failed", "report"}
        /\ card.t = "no key" <=> ~HasKey(OPENAI_API_KEY)
        /\ card.t = "failed" <=> (HasKey(OPENAI_API_KEY) /\ ~CallGaveText(answer))
        /\ card.t = "report" <=> CallGaveText(answer)
        /\ card.t = "report" => card.text = Val(answer.choices[1].content)

\* the service answered with an empty text and the page says the call failed
C6_Witness ==
    /\ Rendered
    /\ answer = Completion(<< Choice(Some("")) >>)
    /\ Val(shown).report_card.t = "failed"

\* C7: get_key returns the trimmed sidebar value when one is given; otherwise,
\* only when fallback is allowed, the trimmed secrets value, and only when the
\* secrets store has none, the trimmed environment variable; None when no
\* consulted source has a value; without fallback it reads neither source.
C7_KeyPriority ==
    pc # "start" => \A n \in KeyNames :
        LET sv == Sidebar(n)
            r == Resolved(n)
            read == consulted[n]
        IN
        /\ sv # << >> => /\ ~IsNone(r) /\ IsTrimOf(Val(r), sv)
                          /\ read = << >>
        /\ (sv = << >> /\ ~use_env) => IsNone(r) /\ read = << >>
        /\ (sv = << >> /\ use_env /\ ~IsNone(secrets[n])) =>
              /\ ~IsNone(r) /\ IsTrimOf(Val(r), SecretText(Val(secrets[n])))
              /\ read = << "secrets" >>
        /\ (sv = << >> /\ use_env /\ IsNone(secrets[n])) =>
              /\ read = << "secrets", "env" >>
              /\ IF ~IsNone(environ[n]) /\ Val(environ[n]) # << >>
                 THEN ~IsNone(r) /\ IsTrimOf(Val(r), Val(environ[n]))
                 ELSE IsNone(r)

\* both stores hold the key, the sidebar is empty: the secret wins, trimmed;
\* the other key comes from the sidebar, trimmed
C7_Witness ==
    /\ pc = "idle"
    /\ openai_key = << >> /\ use_env
    /\ secrets["OPENAI_API_KEY"] = Some([t |-> "str", v |-> << " ", "s" >>])
    /\ environ["OPENAI_API_KEY"] = Some(<< "e" >>)
    /\ OPENAI_API_KEY = Some(<< "s" >>)
    /\ weather_key = << " ", "k", " " >>
    /\ OPENWEATHER_API_KEY = Some(<< "k" >>)

\* C8: within one trigger the services are called in the order weather, dog
\* image, report generation, each at most once, whatever fails.
C8_OnceInOrder ==
    /\ \A i \in 1..Len(calls) : \A j \in (i + 1)..Len(calls) :
          Rank(calls[i]) < Rank(calls[j])
    /\ "weather" \in Range(calls) => WeatherFetched
    /\ "dog" \in Range(calls) <=> DogFetched
    /\ "report" \in Range(calls) => ReportDone

\* all three calls were made and all three failed
C8_Witness ==
    /\ Rendered
    /\ IsNone(weather) /\ IsNone(dog) /\ answer = Raise
    /\ calls = << "weather", "dog", "report" >>

\* C9: the date-keyed view maps each of its dates to the snapshot most
\* recently appended for that date, whole; a stored snapshot is never changed
\* by a later step.
C9_LatestWins ==
    /\ [](\A d \in DOMAIN normalize_history(history) :
             normalize_history(history)[d] = history[LastFor(history, d)])
    /\ [][\A i \in 1..Len(history) :
             i <= Len(history') /\ history'[i] = history[i]]_vars

\* two snapshots of one day with different moods: the view holds the second
C9_Witness ==
    /\ Len(history) = 2
    /\ history[1].date = history[2].date
    /\ history[1].mood # history[2].mood
    /\ normalize_history(history)[history[1].date] = history[2]

\* C10: a run in which the button is pressed appends exactly one snapshot, of
\* the widgets' values, before any external call; no other step changes the
\* history.
C10_OneSnapshotPerTrigger ==
    [][IF pc = "idle" /\ pc' = "get_weather"
       THEN /\ history' = Append(history, [date |-> clock, habits |-> habits,
                                            achievement |-> 20 * checked_count(habits),
                                            mood |-> mood, city |-> city,
                                            coach_style |-> coach_style])
            /\ calls' = << >>
       ELSE history' = history]_vars

\* a trigger without keys whose dog call failed has left its snapshot
C10_Witness ==
    /\ Rendered
    /\ Len(history) = 1
    /\ calls = << "dog" >>
    /\ IsNone(weather) /\ IsNone(dog) /\ IsNone(report)

====
